---- MODULE Spec2Model ----
(***************************************************************************)
(* EDQM2FHIR: conversion of the EDQM Standard Terms export into FHIR       *)
(* CodeSystem / ValueSet resources.                                        *)
(*                                                                         *)
(* Python strings that the program takes apart, formats into other strings *)
(* or hands to a validating constructor (titles, codes, dates, status      *)
(* values, templates) are sequences of one-character strings; strings that *)
(* are only copied or tested for emptiness are TLA+ strings.               *)
(* Python's None is the empty tuple, a present value v is <<v>>.           *)
(***************************************************************************)
EXTENDS Integers, Sequences, FiniteSets, TLC

VARIABLES
    \* ---- identifier generation (App.__generate_id_from_title)
    title,                \* the title handed to the generator
    generated_ids,        \* the successive results: of the title, of that result, ...
    \* ---- the run of convert() (edqm2fhir.py) and the App object's fields
    pc,                   \* the statement of convert() / App.__init__ to run next
    definitions,          \* value_set_settings["definitions"], in dictionary order
    designation,          \* the --designation values of the command line
    designation_languages,\* App.designation_languages
    classes_response,     \* what execute_request("/classes") returned
    languages_response,   \* what execute_request("/languages") returned
    error,                \* the exception that ended the run or the last operation
    output_dir,           \* os.path.isdir(output)
    created_dir,          \* convert() has made the output directory
    files,                \* the files convert() has written
    all_terms,            \* the concept export read by create_code_system
    code_system,          \* the CodeSystem create_code_system returned
    cs_link_categories,   \* App.cs_link_categories (edqm2fhir.py)
    \* ---- the App of edqm2fhir_app.py and what its methods returned to the caller
    vs_designations,      \* App.vs_designations
    concept_classes,      \* App.concept_classes
    class_code_system_url,\* App.class_code_system_url
    class_code_system,    \* the CodeSystem generate_class_code_system returned
    value_sets,           \* the list create_value_sets returned
    last_op,              \* the method called last; error is its exception
    \* ---- canonical urls (App.__generate_canonical)
    fhir_url_template,    \* fhir_metadata["url_template"]
    url_kwargs,           \* the keyword arguments of the call, in their order
    generated_url,        \* the url the call returned
    \* ---- the collaborator (EdqmApi.execute_request)
    requests_sent         \* the requests the last call of execute_request sent

idVars == <<title, generated_ids>>
runVars == <<pc, definitions, designation, designation_languages, classes_response,
             languages_response, error, output_dir, created_dir, files, all_terms,
             code_system, cs_link_categories>>
appVars == <<vs_designations, concept_classes, class_code_system_url, class_code_system,
             value_sets, last_op>>
canonVars == <<fhir_url_template, url_kwargs, generated_url>>
apiVars == <<requests_sent>>
vars == <<idVars, runVars, appVars, canonVars, apiVars>>

(***************************************************************************)
(* Optional values                                                         *)
(***************************************************************************)
None == <<>>
Some(v) == <<v>>
IsNone(o) == o = <<>>
TheValue(o) == o[1]

(***************************************************************************)
(* Characters and the str methods / re.sub calls the program uses          *)
(***************************************************************************)
Uppers == <<"A", "B", "C", "D", "E", "F", "G", "H", "I", "J", "K", "L", "M",
            "N", "O", "P", "Q", "R", "S", "T", "U", "V", "W", "X", "Y", "Z">>
Lowers == <<"a", "b", "c", "d", "e", "f", "g", "h", "i", "j", "k", "l", "m",
            "n", "o", "p", "q", "r", "s", "t", "u", "v", "w", "x", "y", "z">>
Digits == {"0", "1", "2", "3", "4", "5", "6", "7", "8", "9"}
Range(s) == {s[i] : i \in DOMAIN s}
\* the characters the pattern \s matches, among the ASCII characters
Whitespace == {" ", "\t", "\n", "\r", "\f"}
\* the characters the class [A-Za-z0-9\-.] matches
IdClass == Range(Uppers) \cup Range(Lowers) \cup Digits \cup {"-", "."}

\* str.lower(), one character
LowerChar(c) ==
    IF \E i \in DOMAIN Uppers : Uppers[i] = c
    THEN Lowers[CHOOSE i \in DOMAIN Uppers : Uppers[i] = c]
    ELSE c

\* str.lower()
Lower(s) == [i \in DOMAIN s |-> LowerChar(s[i])]

\* re.sub of a one-character class by one replacement character
SubClass(s, class, repl) == [i \in DOMAIN s |-> IF s[i] \in class THEN repl ELSE s[i]]

\* re.sub of the complement of a one-character class by one replacement character
SubNotClass(s, class, repl) == [i \in DOMAIN s |-> IF s[i] \in class THEN s[i] ELSE repl]

\* re.sub of a one-character class by the empty string
DropClass(s, class) == SelectSeq(s, LAMBDA c : c \notin class)

\* re.sub("-+", "-"): every maximal run of dashes becomes one dash
RECURSIVE CollapseDashes(_)
CollapseDashes(s) ==
    IF Len(s) <= 1 THEN s
    ELSE IF s[1] = "-" /\ s[2] = "-" THEN CollapseDashes(Tail(s))
    ELSE <<s[1]>> \o CollapseDashes(Tail(s))

\* a bug the claims must notice: the final lower() is missing
generate_id_from_title_no_lower(param) ==
    SubNotClass(DropClass(CollapseDashes(SubClass(param, Whitespace, "-")), {"(", ")"}),
                IdClass, "_")

\* App.__generate_id_from_title: the four substitutions in dictionary order, then lower()
generate_id_from_title(param) ==
    LET whitespace == SubClass(param, Whitespace, "-")
        dashes     == CollapseDashes(whitespace)
        brackets   == DropClass(dashes, {"(", ")"})
        replaced   == SubNotClass(brackets, IdClass, "_")
    IN  Lower(replaced)

\* str.replace(old, new) for a non-empty old: the non-overlapping occurrences, left to right
RECURSIVE Replace(_, _, _)
Replace(s, old, new) ==
    IF Len(s) < Len(old) THEN s
    ELSE IF SubSeq(s, 1, Len(old)) = old
         THEN new \o Replace(SubSeq(s, Len(old) + 1, Len(s)), old, new)
         ELSE <<s[1]>> \o Replace(Tail(s), old, new)

\* sep.join(list)
RECURSIVE Join(_, _)
Join(list, sep) ==
    IF list = <<>> THEN <<>>
    ELSE IF Len(list) = 1 THEN list[1]
    ELSE list[1] \o sep \o Join(Tail(list), sep)

\* the characters of the model in code point order, by which sorted() compares strings
CodePoints == <<"\t", "\n", "\f", "\r", " ", "$", "(", ")", ",", "-", ".", "/">> \o
              <<"0", "1", "2", "3", "4", "5", "6", "7", "8", "9", ":", "<", ">">> \o
              Uppers \o <<"_">> \o Lowers
CodePoint(c) == CHOOSE i \in DOMAIN CodePoints : CodePoints[i] = c

\* a < b for two strings
RECURSIVE StrLess(_, _)
StrLess(a, b) ==
    IF b = <<>> THEN FALSE
    ELSE IF a = <<>> THEN TRUE
    ELSE IF a[1] = b[1] THEN StrLess(Tail(a), Tail(b))
    ELSE CodePoint(a[1]) < CodePoint(b[1])

\* sorted(list) of strings: ascending, stable
RECURSIVE Insert(_, _)
Insert(sorted, x) ==
    IF sorted = <<>> THEN <<x>>
    ELSE IF StrLess(x, sorted[1]) THEN <<x>> \o sorted
    ELSE <<sorted[1]>> \o Insert(Tail(sorted), x)
RECURSIVE Sorted(_)
Sorted(list) ==
    IF list = <<>> THEN <<>>
    ELSE Insert(Sorted(SubSeq(list, 1, Len(list) - 1)), list[Len(list)])

\* [f(x) for x in list]
Map(list, f(_)) == [i \in DOMAIN list |-> f(list[i])]

(***************************************************************************)
(* Exceptions: an operation's outcome carries the exception it raised      *)
(***************************************************************************)
NoError == [type |-> "none"]
\* None["content"], iterating None
TypeError == [type |-> "TypeError"]
\* [...][0] on an empty list
IndexError == [type |-> "IndexError"]
\* pydantic's ValidationError, raised by the constructor of a resource element
ValidationError == [type |-> "ValidationError"]
\* raise RuntimeError(f"..."): the text and the values formatted into it
RuntimeError(text, args) == [type |-> "RuntimeError", text |-> text, args |-> args]

(***************************************************************************)
(* EdqmApi.execute_request: the parsed JSON body of a 200 response, None   *)
(* for any other status code                                               *)
(***************************************************************************)
\* a bug the claims must notice: a failed request yields an empty catalogue
execute_request_empty_on_failure(rx) ==
    IF rx.status_code # 200 THEN Some([content |-> <<>>]) ELSE Some(rx.json)

execute_request(rx) ==
    IF rx.status_code # 200 THEN None ELSE Some(rx.json)

\* the requests one call of execute_request sends: session.send is called once, before
\* the status code is looked at, and there is no loop
execute_request_sends(rx) == 1

(***************************************************************************)
(* App.__init__: the two checks against the remote catalogue               *)
(***************************************************************************)
STR_all == <<"a", "l", "l">>
STR_comma == <<",">>

\* any(list) of strings: some element is a non-empty string
AnyTruthy(list) == \E i \in DOMAIN list : list[i] # <<>>

\* a bug the claims must notice: the check passes when the last configured class is known
verify_classes_last_only(classes, defs) ==
    IF IsNone(classes) THEN TypeError
    ELSE IF defs # <<>> /\ \A c \in Range(TheValue(classes).content) : c.code # defs[Len(defs)].class
         THEN RuntimeError("The class {code} was not configured in the {metadata_file} file. Aborting.",
                           <<defs[Len(defs)].class>>)
         ELSE NoError

\* App.__verify_classes: the exception it raises, NoError when it returns
verify_classes(classes, defs) ==
    IF IsNone(classes) THEN TypeError
    ELSE LET api_classes == Map(TheValue(classes).content, LAMBDA c : c.code)
             configured_codes == Map(defs, LAMBDA vs : vs.class)
             unknown == SelectSeq(configured_codes, LAMBDA code : code \notin Range(api_classes))
         IN  IF unknown # <<>>
             THEN RuntimeError("The class {code} was not configured in the {metadata_file} file. Aborting.",
                               <<unknown[1]>>)
             ELSE NoError

\* a bug the claims must notice: the codes given next to "all" are kept and the list is not sorted
verify_designation_languages_all_unsorted(languages, designation_langs) ==
    IF IsNone(languages) THEN [error |-> TypeError, designation_languages |-> designation_langs]
    ELSE [error |-> NoError,
          designation_languages |->
              IF STR_all \in Range(designation_langs)
              THEN Map(TheValue(languages).content, LAMBDA lang : lang.code)
              ELSE designation_langs]

\* App.__verify_designation_languages: the exception it raises and the field it leaves
verify_designation_languages(languages, designation_langs) ==
    IF IsNone(languages) THEN [error |-> TypeError, designation_languages |-> designation_langs]
    ELSE LET content == TheValue(languages).content
         IN  IF STR_all \in Range(designation_langs)
             THEN [error |-> NoError,
                   designation_languages |-> Sorted(Map(content, LAMBDA lang : lang.code))]
             ELSE LET matching_languages ==
                          {lang.code : lang \in {l \in Range(content) : l.code \in Range(designation_langs)}}
                      missing_codes == SelectSeq(designation_langs, LAMBDA d : d \notin matching_languages)
                  IN  IF AnyTruthy(missing_codes)
                      THEN [error |-> RuntimeError("Language code/-s unsupported by EDQM: {codes}",
                                                   <<Join(missing_codes, STR_comma)>>),
                            designation_languages |-> designation_langs]
                      ELSE [error |-> NoError, designation_languages |-> designation_langs]

(***************************************************************************)
(* Concept export: what both programs do to one raw concept                *)
(***************************************************************************)
\* App.__reformat_datetime
reformat_datetime(input_str) == Replace(input_str, <<" ">>, <<"T">>) \o <<"Z">>

\* The pattern of a FHIR code, [^\s]+(\s[^\s]+)*, which the resource classes check when
\* an element is constructed: a violation is the ValidationError the program catches
ValidCode(s) ==
    /\ s # <<>>
    /\ s[1] \notin Whitespace
    /\ s[Len(s)] \notin Whitespace
    /\ \A i \in 1..(Len(s) - 1) : ~(s[i] \in Whitespace /\ s[i + 1] \in Whitespace)

\* bool(term) of a translation's term: None and "" are false
Truthy(term) == ~IsNone(term) /\ TheValue(term) # ""

\* {key(x): value(x) for x in items}: a key keeps the place of its first item and the
\* value of its last one
RECURSIVE DictOf(_)
DictOf(items) ==
    IF items = <<>> THEN <<>>
    ELSE LET rest == DictOf(SubSeq(items, 1, Len(items) - 1))
             item == items[Len(items)]
         IN  IF \E i \in DOMAIN rest : rest[i].language = item.language
             THEN [i \in DOMAIN rest |-> IF rest[i].language = item.language THEN item ELSE rest[i]]
             ELSE Append(rest, item)

\* the dictionary comprehension of __cs_generate_concepts over concept["translations"]
selected_translations(concept, designation_langs) ==
    DictOf(SelectSeq(concept.translations, LAMBDA t : t.language \in Range(designation_langs)))

\* a bug the claims must notice: empty terms are not skipped
cs_build_designations_keep_empty(translations) ==
    Map(SelectSeq(translations, LAMBDA t : ValidCode(t.language)),
        LAMBDA t : [language |-> t.language, use |-> None, value |-> t.term])

\* App.__cs_build_designations: the designations of the terms that are set and that the
\* resource class accepts
cs_build_designations(translations) ==
    Map(SelectSeq(translations, LAMBDA t : Truthy(t.term) /\ ValidCode(t.language)),
        LAMBDA t : [language |-> t.language, use |-> None, value |-> t.term])

\* the exceptions __cs_build_designations logs
cs_build_designations_logged(translations) ==
    Map(SelectSeq(translations, LAMBDA t : Truthy(t.term) /\ ~ValidCode(t.language)),
        LAMBDA t : ValidationError)

\* every link of every category, in dictionary order
RECURSIVE all_links(_)
all_links(links) ==
    IF links = <<>> THEN <<>>
    ELSE Map(links[1].entries, LAMBDA link : [category |-> links[1].category, code |-> link.code])
         \o all_links(Tail(links))

(***************************************************************************)
(* edqm2fhir_app.py: the App whose methods generate the three resources    *)
(***************************************************************************)
STR_current == <<"c", "u", "r", "r", "e", "n", "t">>
STR_CodeSystem == <<"C", "o", "d", "e", "S", "y", "s", "t", "e", "m">>
STR_ValueSet == <<"V", "a", "l", "u", "e", "S", "e", "t">>
STR_resource_type == <<"r", "e", "s", "o", "u", "r", "c", "e", "_", "t", "y", "p", "e">>
STR_id_slug == <<"i", "d", "_", "s", "l", "u", "g">>
STR_date == <<"d", "a", "t", "e">>
STR_title == <<"t", "i", "t", "l", "e">>
STR_canonical == <<"c", "a", "n", "o", "n", "i", "c", "a", "l">>
STR_description == <<"d", "e", "s", "c", "r", "i", "p", "t", "i", "o", "n">>
STR_vs_name == <<"v", "s", "_", "n", "a", "m", "e">>
STR_class_code == <<"c", "l", "a", "s", "s", "_", "c", "o", "d", "e">>

\* str.strip()
RECURSIVE Strip(_)
Strip(s) ==
    IF s = <<>> THEN s
    ELSE IF s[1] \in Whitespace THEN Strip(Tail(s))
    ELSE IF s[Len(s)] \in Whitespace THEN Strip(SubSeq(s, 1, Len(s) - 1))
    ELSE s

\* safe_get(dictionary, key, default) for a key whose value, if any, is a string:
\* a missing key and a null are None here
safe_get_str(value, default) ==
    IF IsNone(value) THEN default
    ELSE IF Strip(TheValue(value)) # <<>> THEN Some(Strip(TheValue(value))) ELSE default

\* safe_get(dictionary, key, default) for a key whose value, if any, is no string
safe_get(value, default) ==
    IF IsNone(value) THEN default ELSE TheValue(value)

\* App.__replace_placeholders: kwargs in the order given
RECURSIVE replace_placeholders(_, _)
replace_placeholders(original_value, kwargs) ==
    IF kwargs = <<>> THEN original_value
    ELSE LET placeholder == <<"<", "$">> \o kwargs[1].k \o <<"$", ">">>
         IN  replace_placeholders(Replace(original_value, placeholder, kwargs[1].v), Tail(kwargs))

\* App.__generate_name_from_title
generate_name_from_title(param) ==
    Replace(Replace(param, <<" ">>, <<"_">>), <<"_", "-", "_">>, <<"-">>)

\* App.__generate_canonical: one __replace_placeholders call for each keyword
RECURSIVE generate_canonical(_, _)
generate_canonical(url_template, kwargs) ==
    IF kwargs = <<>> THEN url_template
    ELSE generate_canonical(replace_placeholders(url_template, <<kwargs[1]>>), Tail(kwargs))

\* App.__generate_div
generate_div(resource, metadata) ==
    [status |-> "generated",
     div |-> replace_placeholders(metadata.div_template,
                 <<[k |-> STR_title, v |-> resource.title],
                   [k |-> STR_canonical, v |-> resource.url],
                   [k |-> STR_description, v |-> resource.description]>>)]

\* App.__cs_generate_properties
cs_generate_properties(settings) ==
    Map(settings.all_codes.properties,
        LAMBDA prop_definition :
            [code |-> prop_definition.code,
             type |-> prop_definition.type,
             uri |-> safe_get_str(prop_definition.uri, None),
             description |-> safe_get_str(prop_definition.description, None)])

\* a bug the claims must notice: the inactive property comes after the child properties
concept_properties_inactive_last(concept, links, app, display, inactive) ==
    <<[code |-> "concept_class",
       valueCoding |-> [system |-> app.class_code_system_url,
                        code |-> concept.class,
                        display |-> display]],
      [code |-> "domain", valueString |-> concept.domain],
      [code |-> "creation_date", valueDateTime |-> reformat_datetime(concept.creation_date)],
      [code |-> "modification_date", valueDateTime |-> reformat_datetime(concept.modification_date)],
      [code |-> "status", valueCode |-> concept.status]>>
    \o Map(all_links(links), LAMBDA link : [code |-> "child", valueCode |-> link.code])
    \o (IF inactive THEN <<[code |-> "inactive", valueBoolean |-> TRUE]>> ELSE <<>>)

\* the property list of __cs_build_concept_properties, given the display it looked up
\* and the outcome of its test of the status
concept_properties(concept, links, app, display, inactive) ==
    <<[code |-> "concept_class",
       valueCoding |-> [system |-> app.class_code_system_url,
                        code |-> concept.class,
                        display |-> display]],
      [code |-> "domain", valueString |-> concept.domain],
      [code |-> "creation_date", valueDateTime |-> reformat_datetime(concept.creation_date)],
      [code |-> "modification_date", valueDateTime |-> reformat_datetime(concept.modification_date)],
      [code |-> "status", valueCode |-> concept.status]>>
    \o (IF inactive THEN <<[code |-> "inactive", valueBoolean |-> TRUE]>> ELSE <<>>)
    \o Map(all_links(links), LAMBDA link : [code |-> "child", valueCode |-> link.code])

\* the displays of the classes of the lookup that have the concept's class code
class_displays(concept, app) ==
    Map(SelectSeq(TheValue(app.concept_classes), LAMBDA x : x.code = concept.class),
        LAMBDA x : x.display)

\* a bug the claims must notice: a class the lookup lacks is passed on without a display
cs_build_concept_properties_unchecked(concept, links, app) ==
    [error |-> NoError,
     value |-> concept_properties(concept, links, app,
                   IF IsNone(app.concept_classes) \/ class_displays(concept, app) = <<>>
                   THEN None ELSE Some(class_displays(concept, app)[1]),
                   Lower(concept.status) # STR_current)]

\* a bug the claims must notice: the status is compared as it is written
cs_build_concept_properties_case_sensitive(concept, links, app) ==
    IF IsNone(app.concept_classes) THEN [error |-> TypeError, value |-> <<>>]
    ELSE IF class_displays(concept, app) = <<>> THEN [error |-> IndexError, value |-> <<>>]
    ELSE [error |-> NoError,
          value |-> concept_properties(concept, links, app,
                        Some(class_displays(concept, app)[1]),
                        concept.status # STR_current)]

\* App.__cs_build_concept_properties: the list, or the exception of the display lookup
cs_build_concept_properties(concept, links, app) ==
    IF IsNone(app.concept_classes) THEN [error |-> TypeError, value |-> <<>>]
    ELSE IF class_displays(concept, app) = <<>> THEN [error |-> IndexError, value |-> <<>>]
    ELSE [error |-> NoError,
          value |-> concept_properties(concept, links, app,
                        Some(class_displays(concept, app)[1]),
                        Lower(concept.status) # STR_current)]

\* App.__cs_generate_concepts, one concept: the designations are built, then the
\* properties, then the CodeSystemConcept, whose constructor checks the code
cs_generate_concept(concept, app) ==
    LET translations == selected_translations(concept, app.designation_languages)
        links == safe_get(concept.links, <<>>)
        properties == cs_build_concept_properties(concept, links, app)
    IN  IF properties.error.type # "none" THEN [error |-> properties.error, value |-> None]
        ELSE IF ~ValidCode(concept.code) THEN [error |-> ValidationError, value |-> None]
        ELSE [error |-> NoError,
              value |-> Some([code |-> concept.code,
                              display |-> concept.english,
                              definition |-> safe_get_str(concept.definition, None),
                              designation |-> Some(cs_build_designations(translations)),
                              property |-> Some(properties.value)])]

\* App.__cs_generate_concepts: the concepts in the order of the export; the first
\* exception ends the loop
RECURSIVE cs_generate_concepts(_, _)
cs_generate_concepts(terms, app) ==
    IF terms = <<>> THEN [error |-> NoError, value |-> <<>>]
    ELSE LET first == cs_generate_concept(terms[1], app)
         IN  IF first.error.type # "none" THEN [error |-> first.error, value |-> <<>>]
             ELSE LET rest == cs_generate_concepts(Tail(terms), app)
                  IN  IF rest.error.type # "none" THEN rest
                      ELSE [error |-> NoError, value |-> first.value \o rest.value]

\* App.generate_class_code_system: the resource and the two fields it sets; the url is
\* set before the request, the lookup after it
generate_class_code_system(api_classes, app) ==
    LET settings == app.code_system_settings.concept_classes
        id == generate_id_from_title(settings.title)
        url == generate_canonical(app.fhir_metadata.url_template,
                   <<[k |-> STR_resource_type, v |-> STR_CodeSystem], [k |-> STR_id_slug, v |-> id]>>)
        description == replace_placeholders(settings.description,
                           <<[k |-> STR_date, v |-> app.generated_on]>>)
        concepts == Map(TheValue(api_classes).content,
                        LAMBDA api_class : [code |-> api_class.code, display |-> api_class.name])
    IN  IF IsNone(api_classes)
        THEN [error |-> TypeError, value |-> None,
              class_code_system_url |-> Some(url), concept_classes |-> app.concept_classes]
        ELSE [error |-> NoError,
              value |-> Some(
                 [status |-> "active", content |-> "complete", experimental |-> FALSE,
                  caseSensitive |-> FALSE,
                  meta |-> [profile |-> app.code_system_settings.profiles],
                  name |-> generate_name_from_title(settings.title),
                  id |-> id,
                  title |-> settings.title,
                  url |-> url,
                  valueSet |-> generate_canonical(app.fhir_metadata.url_template,
                                  <<[k |-> STR_resource_type, v |-> STR_ValueSet],
                                    [k |-> STR_id_slug, v |-> id]>>),
                  date |-> app.generated_on,
                  version |-> app.version,
                  copyright |-> app.fhir_metadata.copyright,
                  publisher |-> app.fhir_metadata.publisher,
                  description |-> description,
                  text |-> generate_div([title |-> settings.title, url |-> url,
                                         description |-> description], app.fhir_metadata),
                  concept |-> concepts,
                  count |-> Len(concepts)]),
              class_code_system_url |-> Some(url),
              concept_classes |-> Some(concepts)]

\* App.create_code_system: the resource, or the exception __cs_generate_concepts raised
create_code_system(terms, app) ==
    LET cs_settings == app.code_system_settings.all_codes
        id == generate_id_from_title(cs_settings.title)
        url == generate_canonical(app.fhir_metadata.url_template,
                   <<[k |-> STR_resource_type, v |-> STR_CodeSystem], [k |-> STR_id_slug, v |-> id]>>)
        description == replace_placeholders(cs_settings.description,
                           <<[k |-> STR_date, v |-> app.generated_on]>>)
        concepts == cs_generate_concepts(terms.content, app)
    IN  IF concepts.error.type # "none" THEN [error |-> concepts.error, value |-> None]
        ELSE [error |-> NoError,
              value |-> Some(
                 [status |-> "active", content |-> "complete", experimental |-> FALSE,
                  caseSensitive |-> FALSE,
                  meta |-> [profile |-> app.code_system_settings.profiles],
                  name |-> generate_name_from_title(cs_settings.title),
                  id |-> id,
                  title |-> cs_settings.title,
                  url |-> url,
                  valueSet |-> generate_canonical(app.fhir_metadata.url_template,
                                  <<[k |-> STR_resource_type, v |-> STR_ValueSet],
                                    [k |-> STR_id_slug, v |-> id]>>),
                  date |-> app.generated_on,
                  version |-> app.version,
                  copyright |-> app.fhir_metadata.copyright,
                  publisher |-> app.fhir_metadata.publisher,
                  description |-> description,
                  identifier |-> <<[system |-> app.fhir_metadata.identifier_systems.oid.system,
                                    value |-> app.fhir_metadata.identifier_systems.oid.prefix
                                              \o cs_settings.oid]>>,
                  text |-> generate_div([title |-> cs_settings.title, url |-> url,
                                         description |-> description], app.fhir_metadata),
                  property |-> cs_generate_properties(app.code_system_settings),
                  concept |-> concepts.value,
                  count |-> Len(concepts.value)])]

\* App.__get_concept_property_concept_class: the class code, or the exception
get_concept_property_concept_class(concept) ==
    IF IsNone(concept.property) THEN [error |-> TypeError, value |-> None]
    ELSE LET prop == SelectSeq(TheValue(concept.property), LAMBDA c : c.code = "concept_class")
         IN  IF Len(prop) # 1
             THEN [error |-> RuntimeError("No property for the concept class was found in concept {code}",
                                          <<concept.code>>),
                   value |-> None]
             ELSE [error |-> NoError, value |-> Some(prop[1].valueCoding.code)]

\* a bug the claims must notice: the designations are copied whatever vs_designations is
vs_map_designations_from_cs_always(concept_designation, app) ==
    IF IsNone(concept_designation) THEN None
    ELSE Some(Map(TheValue(concept_designation),
                  LAMBDA cd : [language |-> cd.language, use |-> cd.use, value |-> cd.value]))

\* App.__vs_map_designations_from_cs
vs_map_designations_from_cs(concept_designation, app) ==
    IF IsNone(concept_designation) \/ ~app.vs_designations THEN None
    ELSE Some(Map(TheValue(concept_designation),
                  LAMBDA cd : [language |-> cd.language, use |-> cd.use, value |-> cd.value]))

\* the first exception __get_concept_property_concept_class raises over the concepts
RECURSIVE first_class_error(_)
first_class_error(concepts) ==
    IF concepts = <<>> THEN NoError
    ELSE IF get_concept_property_concept_class(concepts[1]).error.type # "none"
         THEN get_concept_property_concept_class(concepts[1]).error
         ELSE first_class_error(Tail(concepts))

\* a bug the claims must notice: a definition includes the concepts of every class
included_concepts_unfiltered(valueset_params, cs) ==
    cs.concept

\* App.__generate_value_set: the filter over cs.concept
included_concepts(valueset_params, cs) ==
    SelectSeq(cs.concept,
              LAMBDA c : get_concept_property_concept_class(c).value = Some(valueset_params.class))

\* a bug the claims must notice: the include names the CodeSystem without its version
value_set_include_unpinned(cs, vs_concepts) ==
    [system |-> cs.url, version |-> None, concept |-> vs_concepts]

\* App.__generate_value_set: the ValueSetComposeInclude
value_set_include(cs, vs_concepts) ==
    [system |-> cs.url, version |-> cs.version, concept |-> vs_concepts]

\* App.__generate_value_set: the ValueSet, or the exception of the filter
generate_value_set(valueset_name, valueset_params, cs, app) ==
    LET vs_title == replace_placeholders(app.value_set_settings.title_template,
                        <<[k |-> STR_vs_name, v |-> valueset_name]>>)
        id == generate_id_from_title(vs_title)
        url == generate_canonical(app.fhir_metadata.url_template,
                   <<[k |-> STR_resource_type, v |-> STR_ValueSet], [k |-> STR_id_slug, v |-> id]>>)
        description == replace_placeholders(app.value_set_settings.description,
                           <<[k |-> STR_title, v |-> valueset_name],
                             [k |-> STR_class_code, v |-> valueset_params.class],
                             [k |-> STR_date, v |-> app.generated_on]>>)
        failure == first_class_error(cs.concept)
        vs_concepts == Map(included_concepts(valueset_params, cs),
                           LAMBDA c : [code |-> c.code,
                                       display |-> c.display,
                                       designation |-> vs_map_designations_from_cs(c.designation, app)])
    IN  IF failure.type # "none" THEN [error |-> failure, value |-> None]
        ELSE [error |-> NoError,
              value |-> Some(
                 [status |-> "active",
                  version |-> app.version,
                  date |-> app.generated_on,
                  copyright |-> app.fhir_metadata.copyright,
                  publisher |-> app.fhir_metadata.publisher,
                  title |-> vs_title,
                  id |-> id,
                  name |-> generate_name_from_title(vs_title),
                  url |-> url,
                  description |-> description,
                  identifier |-> <<[system |-> app.fhir_metadata.identifier_systems.oid.system,
                                    value |-> app.fhir_metadata.identifier_systems.oid.prefix
                                              \o valueset_params.oid]>>,
                  text |-> generate_div([title |-> vs_title, url |-> url,
                                         description |-> description], app.fhir_metadata),
                  compose |-> [inactive |-> FALSE,
                               include |-> <<value_set_include(cs, vs_concepts)>>]])]

\* App.create_value_sets: one ValueSet for each definition, in dictionary order; the
\* first exception ends the loop
RECURSIVE create_value_sets(_, _, _)
create_value_sets(defs, cs, app) ==
    IF defs = <<>> THEN [error |-> NoError, value |-> <<>>]
    ELSE LET output_vs == generate_value_set(defs[1].name, defs[1], cs, app)
         IN  IF output_vs.error.type # "none" THEN [error |-> output_vs.error, value |-> <<>>]
             ELSE LET rest == create_value_sets(Tail(defs), cs, app)
                  IN  IF rest.error.type # "none" THEN rest
                      ELSE [error |-> NoError, value |-> output_vs.value \o rest.value]

(***************************************************************************)
(* edqm2fhir.py: the App of the command line program and convert()         *)
(***************************************************************************)
STR_link_ == <<"l", "i", "n", "k", "_">>

\* App.__generate_name_from_title (edqm2fhir.py)
convert_generate_name_from_title(param) == Replace(param, <<" ">>, <<"_">>)

\* App.__generate_id_from_title (edqm2fhir.py)
convert_generate_id_from_title(param) == Lower(Replace(param, <<" ">>, <<"-">>))

\* App.__generate_canonical (edqm2fhir.py): the placeholders <resource_type> and <id_slug>
convert_generate_canonical(url_template, resource_type, id_slug) ==
    Replace(Replace(url_template, <<"<", "r", "e", "s", "o", "u", "r", "c", "e", "_", "t", "y", "p", "e", ">">>, resource_type),
            <<"<", "i", "d", "_", "s", "l", "u", "g", ">">>, id_slug)

\* the link categories __cs_build_properties adds to cs_link_categories
RECURSIVE convert_link_categories(_, _)
convert_link_categories(links, categories) ==
    IF links = <<>> THEN categories
    ELSE LET link_code == STR_link_ \o Lower(links[1].category)
         IN  convert_link_categories(Tail(links),
                 IF link_code \in Range(categories) THEN categories
                 ELSE Append(categories, link_code))

\* App.__cs_build_properties (edqm2fhir.py)
convert_cs_build_properties(concept) ==
    <<[code |-> "concept_class", valueString |-> concept.class],
      [code |-> "domain", valueString |-> concept.domain],
      [code |-> "creation_date", valueDateTime |-> reformat_datetime(concept.creation_date)],
      [code |-> "modification_date", valueDateTime |-> reformat_datetime(concept.modification_date)],
      [code |-> "status", valueString |-> concept.status]>>
    \o Map(all_links(IF IsNone(concept.links) THEN <<>> ELSE TheValue(concept.links)),
           LAMBDA link : [code |-> STR_link_ \o Lower(link.category), valueCode |-> link.code])

\* App.__cs_generate_concepts (edqm2fhir.py): a concept the resource class rejects is
\* logged and left out
convert_cs_generate_concepts(terms, designation_langs) ==
    Map(SelectSeq(terms, LAMBDA concept : ValidCode(concept.code)),
        LAMBDA concept :
            [code |-> concept.code,
             display |-> concept.english,
             definition |-> IF IsNone(concept.definition) \/ TheValue(concept.definition) = <<>>
                            THEN None ELSE concept.definition,
             designation |-> Some(cs_build_designations(selected_translations(concept, designation_langs))),
             property |-> Some(convert_cs_build_properties(concept))])

\* the link categories known after __cs_generate_concepts
RECURSIVE convert_all_link_categories(_, _)
convert_all_link_categories(terms, categories) ==
    IF terms = <<>> THEN categories
    ELSE convert_all_link_categories(Tail(terms),
             convert_link_categories(IF IsNone(terms[1].links) THEN <<>> ELSE TheValue(terms[1].links),
                                     categories))

\* App.create_code_system (edqm2fhir.py)
convert_create_code_system(terms, designation_langs, settings, metadata, generated_on) ==
    LET id == convert_generate_id_from_title(settings.title)
    IN  [status |-> "active",
         content |-> "complete",
         name |-> convert_generate_name_from_title(settings.title),
         id |-> id,
         title |-> settings.title,
         url |-> convert_generate_canonical(metadata.url_template, <<"C", "o", "d", "e", "S", "y", "s", "t", "e", "m">>, id),
         date |-> generated_on,
         version |-> Replace(generated_on, <<"-">>, <<>>),
         copyright |-> metadata.copyright,
         description |-> Replace(settings.description, <<"<", "d", "a", "t", "e", ">">>, generated_on),
         property |-> <<>>,
         concept |-> convert_cs_generate_concepts(terms, designation_langs)]

\* generate_output_filename
generate_output_filename(output_dir_name, resource_type, id) ==
    [dir |-> output_dir_name, filename |-> resource_type \o <<"_">> \o id \o <<".", "f", "h", "i", "r", ".", "j", "s", "o", "n">>]

(***************************************************************************)
(* Bounds and input domains                                                *)
(***************************************************************************)
SeqsUpTo(S, n) == UNION {[1..k -> S] : k \in 0..n}

MaxTitleLen == 3
\* how often the generator is applied to its own result
MaxApply == 2
TitleChars == {" ", "\t", "-", "(", ")", "A", "b", "7", ".", "_", "/"}
Titles == SeqsUpTo(TitleChars, MaxTitleLen)

\* language codes
STR_en == <<"e", "n">>
STR_de == <<"d", "e">>
\* the --designation values: at least one (click's default is ["all"])
MaxDesignations == 2
CliLanguages == {STR_all, STR_en, STR_de, <<>>}
Designations == SeqsUpTo(CliLanguages, MaxDesignations) \ {<<>>}

\* the value-set definitions of the configuration file: name -> {class, oid}
MaxDefs == 2
DefNames == <<<<"D", "o", "s", "e", " ", "(", "-", ")", " ", "F", "o", "r", "m", "s">>, <<"R", "o", "u", "t", "e", "s">>, <<"U", "n", "i", "t", "s">>, <<"C", "l", "o", "s", "u", "r", "e", "s">>, <<"D", "e", "v", "i", "c", "e", "s">>>>
DefOids == <<"1", "2", "3", "4", "5">>
DefinitionsOver(classes, n) ==
    UNION {{[i \in 1..k |-> [name |-> DefNames[i], class |-> f[i], oid |-> DefOids[i]]] :
              f \in [1..k -> classes]} : k \in 0..n}

\* the remote catalogue: the bodies of /classes and /languages, and a failing response
MaxRemoteClasses == 2
MaxRemoteLanguages == 2
NoResponse == [status_code |-> 0]
FailedResponse == [status_code |-> 500]
OkResponse(content) == [status_code |-> 200, json |-> [content |-> content]]
RemoteClassesOver(codes) == {[code |-> c, name |-> <<"c", "l", "a", "s", "s", " ">> \o c] : c \in codes}
RemoteLanguageRecords == {[code |-> STR_en, name |-> "English"], [code |-> STR_de, name |-> "German"]}
ClassesResponsesOver(codes, n) ==
    {FailedResponse} \cup {OkResponse(l) : l \in SeqsUpTo(RemoteClassesOver(codes), n)}
LanguagesResponses ==
    {FailedResponse} \cup {OkResponse(l) : l \in SeqsUpTo(RemoteLanguageRecords, MaxRemoteLanguages)}

\* the run of convert(): configured classes, the classes the service knows
ConvertConfigClasses == {<<"A">>, <<"Y">>, <<"Z">>}
ConvertRemoteClasses == {<<"A">>, <<"Z">>}

\* the configuration file of edqm2fhir.py and the day of the run
ConvertSettings == [title |-> <<"E", "D", "Q", "M", " ", "S", "T">>,
                    description |-> <<"o", "f", " ", "<", "d", "a", "t", "e", ">">>]
ConvertMetadata == [copyright |-> "EDQM",
                    url_template |-> <<"u", ":", "<", "r", "e", "s", "o", "u", "r", "c", "e", "_", "t", "y", "p", "e", ">", "/", "<", "i", "d", "_", "s", "l", "u", "g", ">">>]
GeneratedOn == <<"2", "0", "2", "4", "-", "0", "5", "-", "0", "1">>
OutputArg == <<"o", "u", "t", "p", "u", "t">>

\* raw concepts of the export
STR_time == <<"2", "0", "2", "3", "-", "0", "1", "-", "0", "5", " ", "1", "2", ":", "0", "0", ":", "0", "0">>
RawConcept(code, class, status, definition, translations, links) ==
    [code |-> code, class |-> class, domain |-> "Human and Veterinary",
     creation_date |-> STR_time, modification_date |-> STR_time,
     english |-> "Tablet", definition |-> definition, status |-> status,
     translations |-> translations, links |-> links]
STR_Current == <<"C", "u", "r", "r", "e", "n", "t">>
NoTerms == [content |-> <<>>]
\* the export convert() reads: nothing, a concept, a concept the resource class rejects
MaxConvertConcepts == 1
ConvertConcepts ==
    {RawConcept(code, <<"A">>, STR_Current, Some(<<>>),
                <<[language |-> STR_en, term |-> Some("Tablette")]>>,
                Some(<<[category |-> <<"C", "O", "M">>, entries |-> <<[code |-> <<"7">>]>>]>>)) :
        code \in {<<"1">>, <<" ">>}}
ConvertTerms == {[content |-> l] : l \in SeqsUpTo(ConvertConcepts, MaxConvertConcepts)}

\* the configuration file of edqm2fhir_app.py
AppMetadata ==
    [copyright |-> "EDQM", publisher |-> "EDQM",
     url_template |-> <<"u", ":", "<", "$", "r", "e", "s", "o", "u", "r", "c", "e", "_", "t", "y", "p", "e", "$", ">", "/", "<", "$", "i", "d", "_", "s", "l", "u", "g", "$", ">">>,
     identifier_systems |-> [oid |-> [system |-> "urn:ietf:rfc:3986", prefix |-> "urn:oid:"]],
     div_template |-> <<"<", "$", "t", "i", "t", "l", "e", "$", ">", ":", "<", "$", "d", "e", "s", "c", "r", "i", "p", "t", "i", "o", "n", "$", ">">>]
AppCodeSystemSettings ==
    [profiles |-> <<"shareable">>,
     concept_classes |-> [title |-> <<"E", "D", "Q", "M", " ", "C", "l", "a", "s", "s", "e", "s">>,
                          description |-> <<"o", "f", " ", "<", "$", "d", "a", "t", "e", "$", ">">>],
     all_codes |-> [title |-> <<"E", "D", "Q", "M", " ", "S", "T">>,
                    description |-> <<"o", "f", " ", "<", "$", "d", "a", "t", "e", "$", ">">>,
                    oid |-> "0",
                    properties |-> <<[code |-> "concept_class", type |-> "Coding",
                                      uri |-> None, description |-> Some(<<" ", "c", "l", "a", "s", "s", " ">>)],
                                     [code |-> "child", type |-> "code",
                                      uri |-> Some(<<"u", ":", "c", "h", "i", "l", "d">>), description |-> None]>>]]
AppValueSetSettings ==
    [title_template |-> <<"E", "D", "Q", "M", " ", "<", "$", "v", "s", "_", "n", "a", "m", "e", "$", ">">>,
     description |-> <<"<", "$", "t", "i", "t", "l", "e", "$", ">", " ", "<", "$", "c", "l", "a", "s", "s", "_", "c", "o", "d", "e", "$", ">", " ", "<", "$", "d", "a", "t", "e", "$", ">">>]

\* a language code the resource class rejects
STR_bad == <<" ", "x">>
STR_Retired == <<"R", "e", "t", "i", "r", "e", "d">>
STR_CURRENT == <<"C", "U", "R", "R", "E", "N", "T">>
COM == <<"C", "O", "M">>
ROA == <<"R", "O", "A">>

\* the lookups generate_class_code_system can have left: none, an empty one, the
\* class A, the class A listed twice
Lookups ==
    {None, Some(<<>>),
     Some(<<[code |-> <<"A">>, display |-> "Dose form"]>>),
     Some(<<[code |-> <<"A">>, display |-> "Dose form"], [code |-> <<"A">>, display |-> "Form"]>>)}

\* one raw concept at a time, varied in its translations, in its links, in its other fields
MaxTranslations == 2
MaxLinkCategories == 2
MaxLinks == 2
MaxDesignationLanguages == 2
TranslationEntries ==
    {[language |-> STR_en, term |-> Some("Tablette")],
     [language |-> STR_en, term |-> Some("")],
     [language |-> STR_en, term |-> None],
     [language |-> STR_de, term |-> Some("Tablette")],
     [language |-> STR_de, term |-> Some("")],
     [language |-> STR_bad, term |-> Some("Tablette")]}
\* link categories, each with some links; a code tells the category and the place of its link
LinkCategoryNames == <<COM, ROA, <<"P", "D", "F">>, <<"B", "D", "F">>>>
LinkCodeDigits == <<"1", "2", "3", "4">>
LinkVariants ==
    {None} \cup
    UNION {{Some([i \in 1..k |->
                    [category |-> LinkCategoryNames[i],
                     entries |-> [j \in 1..n[i] |-> [code |-> <<LinkCodeDigits[i], LinkCodeDigits[j]>>]]]]) :
              n \in [1..k -> 0..MaxLinks]} :
           k \in 0..MaxLinkCategories}
ConceptInputs ==
    {RawConcept(<<"1">>, <<"A">>, STR_Current, None, t, None) :
        t \in SeqsUpTo(TranslationEntries, MaxTranslations)}
    \cup {RawConcept(<<"1">>, <<"A">>, st, None, <<>>, l) :
        st \in {STR_Current, STR_Retired}, l \in LinkVariants}
    \cup {RawConcept(code, class, st, def, <<[language |-> STR_en, term |-> Some("Tablette")]>>, None) :
        code \in {<<"1">>, <<" ">>}, class \in {<<"A">>, <<"Z">>},
        st \in {STR_current, STR_CURRENT, STR_Retired},
        def \in {None, Some(<<" ">>), Some(<<" ", "d", " ">>)}}
ConceptTerms == {[content |-> <<c>>] : c \in ConceptInputs}
\* the App's designation languages and lookup when the concept is transformed
ConceptApps ==
    {[designation_languages |-> dl,
      concept_classes |-> Some(<<[code |-> <<"A">>, display |-> "Dose form"]>>)] :
        dl \in SeqsUpTo({STR_en, STR_bad}, MaxDesignationLanguages)}
    \cup {[designation_languages |-> <<STR_en>>, concept_classes |-> l] : l \in Lookups}

\* the App whose methods are called in any order: its classes, its exports
AppClasses == {<<"A">>, <<"Z">>}
MaxAppClasses == 1
MaxAppConcepts == 2
AppDefinitions ==
    <<[name |-> DefNames[1], class |-> <<"A">>, oid |-> DefOids[1]],
      [name |-> DefNames[2], class |-> <<"Z">>, oid |-> DefOids[2]]>>
AppConcepts ==
    {RawConcept(<<"1">>, class, STR_Current, None,
                <<[language |-> STR_en, term |-> Some("Tablette")]>>, None) : class \in AppClasses}
AppTerms == {[content |-> l] : l \in SeqsUpTo(AppConcepts, MaxAppConcepts)}

\* the CodeSystems handed to create_value_sets: concepts with one concept_class property,
\* with none, with two, without a property list; a concept with designations, one with
\* an empty list of them
MaxPartitionConcepts == 2
PartitionClasses == {<<"A">>, <<"B">>}
ClassProperty(class) ==
    [code |-> "concept_class",
     valueCoding |-> [system |-> None, code |-> class, display |-> Some("Dose form")]]
PropertyLists ==
    {Some(<<ClassProperty(class), [code |-> "domain", valueString |-> "Human"]>>) :
        class \in PartitionClasses}
    \cup {None, Some(<<[code |-> "domain", valueString |-> "Human"]>>),
          Some(<<ClassProperty(<<"A">>), ClassProperty(<<"B">>)>>)}
PartitionConcepts ==
    [code : {<<"1">>, <<"2">>}, display : {"Tablet"}, designation : {None},
     property : PropertyLists]
    \cup {[code |-> <<"3">>, display |-> "Capsule", designation |-> Some(d),
           property |-> Some(<<ClassProperty(<<"A">>)>>)] :
             d \in {<<>>,
                    <<[language |-> STR_de, use |-> None, value |-> Some("Kapsel")],
                      [language |-> STR_en, use |-> Some([code |-> "display"]), value |-> Some("Capsule")]>>}}
PartitionCodeSystems ==
    {[url |-> <<"u", ":", "c", "s">>, version |-> <<"2", "0", "2", "3", "0", "1", "0", "5">>, concept |-> l] :
        l \in SeqsUpTo(PartitionConcepts, MaxPartitionConcepts)}

(***************************************************************************)
(* Specification SpecConvert: one run of convert() (edqm2fhir.py).  pc     *)
(* names the statement that runs next; the locals of a method that has     *)
(* returned are forgotten with the next statement, those of a method that  *)
(* raised stay with the aborted run.                                       *)
(***************************************************************************)
IdIdle == title = <<>> /\ generated_ids = <<>>

CanonicalIdle == fhir_url_template = <<>> /\ url_kwargs = <<>> /\ generated_url = None

ApiIdle == requests_sent = 0

AppIdle ==
    /\ vs_designations = FALSE
    /\ concept_classes = None
    /\ class_code_system_url = None
    /\ class_code_system = None
    /\ value_sets = None
    /\ last_op = "none"

InitConvert ==
    /\ IdIdle
    /\ CanonicalIdle
    /\ ApiIdle
    /\ AppIdle
    /\ pc = "App"
    /\ designation \in Designations
    /\ definitions = <<>>
    /\ designation_languages = <<>>
    /\ classes_response = NoResponse
    /\ languages_response = NoResponse
    /\ error = NoError
    /\ output_dir = FALSE
    /\ created_dir = FALSE
    /\ files = {}
    /\ all_terms = NoTerms
    /\ code_system = None
    /\ cs_link_categories = <<>>

\* App.__init__ up to __load_config_yaml: the fields are set from the arguments and the file
LoadConfig ==
    /\ pc = "App"
    /\ \E defs \in DefinitionsOver(ConvertConfigClasses, MaxDefs) : definitions' = defs
    /\ designation_languages' = designation
    /\ pc' = "verify_classes"
    /\ UNCHANGED <<idVars, canonVars, apiVars, appVars, designation, classes_response, languages_response, error,
                   output_dir, created_dir, files, all_terms, code_system, cs_link_categories>>

\* App.__init__: self.__verify_classes()
VerifyClasses ==
    /\ pc = "verify_classes"
    /\ \E rx \in ClassesResponsesOver(ConvertRemoteClasses, MaxRemoteClasses) :
          /\ classes_response' = rx
          /\ requests_sent' = execute_request_sends(rx)
          /\ error' = verify_classes(execute_request(rx), definitions)
    /\ pc' = IF error'.type = "none" THEN "verify_designation_languages" ELSE "aborted"
    /\ UNCHANGED <<idVars, canonVars, appVars, definitions, designation, designation_languages, languages_response,
                   output_dir, created_dir, files, all_terms, code_system, cs_link_categories>>

\* App.__init__: self.__verify_designation_languages(), then the date of the run
VerifyDesignationLanguages ==
    /\ pc = "verify_designation_languages"
    /\ \E rx \in LanguagesResponses :
          LET result == verify_designation_languages(execute_request(rx), designation_languages)
          IN  /\ languages_response' = rx
              /\ requests_sent' = execute_request_sends(rx)
              /\ error' = result.error
              /\ designation_languages' = result.designation_languages
    /\ pc' = IF error'.type = "none" THEN "mkdir" ELSE "aborted"
    /\ classes_response' = NoResponse
    /\ UNCHANGED <<idVars, canonVars, appVars, definitions, designation,
                   output_dir, created_dir, files, all_terms, code_system, cs_link_categories>>

\* convert(): the output directory is made unless it is there
MkDir ==
    /\ pc = "mkdir"
    /\ \E isdir \in BOOLEAN : created_dir' = ~isdir
    /\ output_dir' = TRUE
    /\ languages_response' = NoResponse
    /\ pc' = "create_code_system"
    /\ UNCHANGED <<idVars, canonVars, apiVars, appVars, definitions, designation, designation_languages, classes_response,
                   error, files, all_terms, code_system, cs_link_categories>>

\* convert(): cs = app.create_code_system()
ConvertCreateCodeSystem ==
    /\ pc = "create_code_system"
    /\ \E terms \in ConvertTerms :
          /\ all_terms' = terms
          /\ code_system' = Some(convert_create_code_system(terms.content, designation_languages,
                                     ConvertSettings, ConvertMetadata, GeneratedOn))
          /\ cs_link_categories' = convert_all_link_categories(terms.content, cs_link_categories)
    /\ pc' = "write"
    /\ UNCHANGED <<idVars, canonVars, apiVars, appVars, definitions, designation, designation_languages, classes_response,
                   languages_response, error, output_dir, created_dir, files>>

\* convert(): the CodeSystem is written to its file
WriteCodeSystem ==
    /\ pc = "write"
    /\ files' = files \cup {generate_output_filename(OutputArg, <<"C", "o", "d", "e", "S", "y", "s", "t", "e", "m">>,
                                                     TheValue(code_system).id)}
    /\ all_terms' = NoTerms
    /\ pc' = "create_value_sets"
    /\ UNCHANGED <<idVars, canonVars, apiVars, appVars, definitions, designation, designation_languages, classes_response,
                   languages_response, error, output_dir, created_dir, code_system,
                   cs_link_categories>>

\* convert(): app.create_value_sets(), which does nothing in edqm2fhir.py
ConvertCreateValueSets ==
    /\ pc = "create_value_sets"
    /\ pc' = "done"
    /\ UNCHANGED <<idVars, canonVars, apiVars, appVars, definitions, designation, designation_languages, classes_response,
                   languages_response, error, output_dir, created_dir, files, all_terms,
                   code_system, cs_link_categories>>

NextConvert ==
    \/ LoadConfig
    \/ VerifyClasses
    \/ VerifyDesignationLanguages
    \/ MkDir
    \/ ConvertCreateCodeSystem
    \/ WriteCodeSystem
    \/ ConvertCreateValueSets

SpecConvert == InitConvert /\ [][NextConvert]_vars

(***************************************************************************)
(* The methods of the App of edqm2fhir_app.py, called on a constructed App. *)
(* all_terms is a local of create_code_system, classes_response one of     *)
(* generate_class_code_system: the next call forgets them.                 *)
(* A method is called once in a step: result is what that call returned.   *)
(***************************************************************************)
\* the App object
TheApp ==
    [designation_languages |-> designation_languages,
     vs_designations |-> vs_designations,
     concept_classes |-> concept_classes,
     class_code_system_url |-> class_code_system_url,
     fhir_metadata |-> AppMetadata,
     code_system_settings |-> AppCodeSystemSettings,
     value_set_settings |-> AppValueSetSettings,
     generated_on |-> GeneratedOn,
     version |-> Replace(GeneratedOn, <<"-">>, <<>>)]

ConstructedIdle ==
    /\ designation = <<>>
    /\ classes_response = NoResponse
    /\ languages_response = NoResponse
    /\ error = NoError
    /\ output_dir = FALSE
    /\ created_dir = FALSE
    /\ files = {}
    /\ all_terms = NoTerms
    /\ cs_link_categories = <<>>
    /\ class_code_system = None
    /\ value_sets = None
    /\ last_op = "none"

\* App.generate_class_code_system, the service answering with one of the responses
GenerateClassCodeSystemOver(responses) ==
    /\ pc = "constructed"
    /\ \E rx \in responses :
          \E result \in {generate_class_code_system(execute_request(rx), TheApp)} :
              /\ class_code_system_url' = result.class_code_system_url
              /\ concept_classes' = result.concept_classes
              /\ class_code_system' = result.value
              /\ error' = result.error
              /\ classes_response' = rx
              /\ requests_sent' = execute_request_sends(rx)
    /\ last_op' = "generate_class_code_system"
    /\ all_terms' = NoTerms
    /\ UNCHANGED <<idVars, canonVars, pc, definitions, designation, designation_languages,
                   languages_response, output_dir, created_dir, files,
                   code_system, cs_link_categories, vs_designations, value_sets>>

\* App.create_code_system, output.json holding one of the exports
CreateCodeSystemOver(exports) ==
    /\ pc = "constructed"
    /\ \E terms \in exports :
          \E result \in {create_code_system(terms, TheApp)} :
              /\ all_terms' = terms
              /\ code_system' = result.value
              /\ error' = result.error
    /\ last_op' = "create_code_system"
    /\ classes_response' = NoResponse
    /\ UNCHANGED <<idVars, canonVars, apiVars, pc, definitions, designation, designation_languages,
                   languages_response, output_dir, created_dir, files,
                   cs_link_categories, vs_designations, concept_classes,
                   class_code_system_url, class_code_system, value_sets>>

\* App.create_value_sets(code_system), called with the CodeSystem the caller holds
CreateValueSets ==
    /\ pc = "constructed"
    /\ ~IsNone(code_system)
    /\ \E result \in {create_value_sets(definitions, TheValue(code_system), TheApp)} :
           /\ value_sets' = IF result.error.type = "none" THEN Some(result.value) ELSE None
           /\ error' = result.error
    /\ last_op' = "create_value_sets"
    /\ all_terms' = NoTerms
    /\ classes_response' = NoResponse
    /\ UNCHANGED <<idVars, canonVars, apiVars, pc, definitions, designation, designation_languages,
                   languages_response, output_dir, created_dir, files,
                   code_system, cs_link_categories, vs_designations,
                   concept_classes, class_code_system_url, class_code_system>>

(***************************************************************************)
(* Specification Spec: a constructed App whose three methods are called in *)
(* any order, any number of times                                          *)
(***************************************************************************)
Init ==
    /\ IdIdle
    /\ CanonicalIdle
    /\ ApiIdle
    /\ ConstructedIdle
    /\ pc = "constructed"
    /\ definitions = AppDefinitions
    /\ designation_languages = <<STR_en>>
    /\ vs_designations \in BOOLEAN
    /\ concept_classes = None
    /\ class_code_system_url = None
    /\ code_system = None

GenerateClassCodeSystem ==
    GenerateClassCodeSystemOver(ClassesResponsesOver(AppClasses, MaxAppClasses))

CreateCodeSystem == CreateCodeSystemOver(AppTerms)

Next ==
    \/ GenerateClassCodeSystem
    \/ CreateCodeSystem
    \/ CreateValueSets

Spec == Init /\ [][Next]_vars

(***************************************************************************)
(* Specification SpecConcept: create_code_system on an export of one raw   *)
(* concept, for every lookup and every list of designation languages       *)
(***************************************************************************)
InitConcept ==
    /\ IdIdle
    /\ CanonicalIdle
    /\ ApiIdle
    /\ ConstructedIdle
    /\ pc = "constructed"
    /\ definitions = <<>>
    /\ \E app \in ConceptApps :
          /\ designation_languages = app.designation_languages
          /\ concept_classes = app.concept_classes
    /\ vs_designations = FALSE
    /\ class_code_system_url = IF IsNone(concept_classes) THEN None ELSE Some(<<"u", ":", "c", "l", "a", "s", "s", "e", "s">>)
    /\ code_system = None

\* the one call of create_code_system
ConceptCreateCodeSystem ==
    /\ last_op = "none"
    /\ CreateCodeSystemOver(ConceptTerms)

NextConcept == ConceptCreateCodeSystem

SpecConcept == InitConcept /\ [][NextConcept]_vars

(***************************************************************************)
(* Specification SpecPartition: create_value_sets on a CodeSystem, for     *)
(* every list of value-set definitions                                     *)
(***************************************************************************)
InitPartition ==
    /\ IdIdle
    /\ CanonicalIdle
    /\ ApiIdle
    /\ ConstructedIdle
    /\ pc = "constructed"
    /\ definitions \in DefinitionsOver(PartitionClasses, MaxDefs)
    /\ designation_languages = <<STR_de>>
    /\ vs_designations \in BOOLEAN
    /\ concept_classes = None
    /\ class_code_system_url = None
    /\ code_system \in {Some(cs) : cs \in PartitionCodeSystems}

\* the one call of create_value_sets
PartitionCreateValueSets ==
    /\ last_op = "none"
    /\ CreateValueSets

NextPartition == PartitionCreateValueSets

SpecPartition == InitPartition /\ [][NextPartition]_vars

(***************************************************************************)
(* Specification SpecId: the identifier generator applied to a title and   *)
(* then to its own results                                                 *)
(***************************************************************************)
RunIdle ==
    /\ pc = "idle"
    /\ definitions = <<>>
    /\ designation = <<>>
    /\ designation_languages = <<>>
    /\ classes_response = NoResponse
    /\ languages_response = NoResponse
    /\ error = NoError
    /\ output_dir = FALSE
    /\ created_dir = FALSE
    /\ files = {}
    /\ all_terms = NoTerms
    /\ code_system = None
    /\ cs_link_categories = <<>>

InitId ==
    /\ title \in Titles
    /\ generated_ids = <<>>
    /\ RunIdle
    /\ AppIdle
    /\ CanonicalIdle
    /\ ApiIdle

GenerateId ==
    /\ Len(generated_ids) < MaxApply
    /\ generated_ids' = Append(generated_ids,
           generate_id_from_title(IF generated_ids = <<>> THEN title
                                  ELSE generated_ids[Len(generated_ids)]))
    /\ UNCHANGED <<title, runVars, appVars, canonVars, apiVars>>

NextId == GenerateId

SpecId == InitId /\ [][NextId]_vars

\* C1: idFromTitle is idempotent: applied to its own result it returns that result.
C1_Idempotent ==
    Len(generated_ids) >= 2 => generated_ids[2] = generated_ids[1]

\* C2 as stated: the result is lowercase with no character outside [a-z0-9-.].
C2_NoCharOutsideClass ==
    \A k \in DOMAIN generated_ids :
        Range(generated_ids[k]) \subseteq Range(Lowers) \cup Digits \cup {"-", "."}

\* C2 (amended): the result is lowercase with no character outside [a-z0-9-._]; the
\* underscore is what every other character was replaced by.
C2_LowerIdCharset ==
    \A k \in DOMAIN generated_ids :
        /\ Range(generated_ids[k]) \subseteq Range(Lowers) \cup Digits \cup {"-", ".", "_"}
        /\ Lower(generated_ids[k]) = generated_ids[k]

\* a title with an upper-case letter and a character outside the class has got its id
C2_Witness ==
    /\ generated_ids # <<>>
    /\ "A" \in Range(title)
    /\ "/" \in Range(title)
    /\ "_" \in Range(generated_ids[1])
    /\ "a" \in Range(generated_ids[1])
(***************************************************************************)
(* Claims about the run of convert(), checked under SpecConvert            *)
(***************************************************************************)
\* the configured class codes the service's class list lacks, in configuration order
UnknownClasses ==
    SelectSeq(Map(definitions, LAMBDA vs : vs.class),
              LAMBDA code : \A c \in Range(classes_response.json.content) : c.code # code)

\* the configured language codes the service's language list lacks, in the order given
MissingLanguages ==
    SelectSeq(designation,
              LAMBDA d : \A l \in Range(languages_response.json.content) : l.code # d)

NothingGenerated == ~created_dir /\ files = {} /\ IsNone(code_system)

\* C6: a value-set definition with a class the service's class list lacks aborts the run
\* with an error that names the (first such) code, before anything is generated and before
\* the output directory or a file is made; whatever is generated or made is generated or
\* made after the class check and the language check have both returned.
C6_AbortBeforeOutput ==
    /\ (classes_response.status_code = 200 /\ UnknownClasses # <<>>) =>
           /\ pc = "aborted"
           /\ error.type = "RuntimeError"
           /\ error.args = <<UnknownClasses[1]>>
           /\ NothingGenerated
    /\ pc \in {"App", "verify_classes", "verify_designation_languages", "aborted"} =>
           NothingGenerated

\* the second of two definitions names an unknown class and the run is aborted for it
C6_Witness ==
    /\ pc = "aborted"
    /\ classes_response.status_code = 200
    /\ Len(definitions) = 2
    /\ Len(UnknownClasses) = 1
    /\ definitions[2].class = <<"Z">>
    /\ error.type = "RuntimeError"
    /\ error.args = <<<<"Z">>>>

\* C7: without "all", the language check passes only if every configured code is a code
\* of the service; otherwise it raises one error that names all the missing codes.
C7_MissingLanguagesReported ==
    (languages_response.status_code = 200 /\ STR_all \notin Range(designation)) =>
        IF MissingLanguages = <<>>
        THEN pc = "mkdir" /\ error.type = "none"
        ELSE /\ pc = "aborted"
             /\ error.type = "RuntimeError"
             /\ error.args = <<Join(MissingLanguages, STR_comma)>>

\* C8: with "all" among the configured codes the language check raises nothing and
\* the resolved languages are all the codes of the service in ascending order, whatever
\* other codes were given.
C8_AllResolvesToSortedRemote ==
    (languages_response.status_code = 200 /\ STR_all \in Range(designation)) =>
        LET remote == Map(languages_response.json.content, LAMBDA l : l.code)
        IN  /\ pc = "mkdir"
            /\ error.type = "none"
            /\ Len(designation_languages) = Len(remote)
            /\ \A c \in Range(remote) :
                   Cardinality({i \in DOMAIN remote : remote[i] = c})
                     = Cardinality({i \in DOMAIN designation_languages : designation_languages[i] = c})
            /\ \A i, j \in DOMAIN designation_languages :
                   i < j => ~StrLess(designation_languages[j], designation_languages[i])

\* "all" was given with a code the service lacks, and the service listed en before de
C8_Witness ==
    /\ pc = "mkdir"
    /\ languages_response.status_code = 200
    /\ STR_all \in Range(designation)
    /\ <<>> \in Range(designation)
    /\ Map(languages_response.json.content, LAMBDA l : l.code) = <<STR_en, STR_de>>
    /\ designation_languages = <<STR_de, STR_en>>

(***************************************************************************)
(* Claims about create_value_sets, checked under SpecPartition             *)
(***************************************************************************)
\* the codes of a list of concepts, in the order of the list
Codes(concepts) == Map(concepts, LAMBDA c : c.code)

\* the properties of a concept that have the given code
PropertiesWithCode(concept, code) ==
    IF IsNone(concept.property) THEN <<>>
    ELSE SelectSeq(TheValue(concept.property), LAMBDA p : p.code = code)

\* the concept has exactly one concept_class property
HasOneClass(concept) == Len(PropertiesWithCode(concept, "concept_class")) = 1

\* the class code of a concept that has exactly one concept_class property
ClassOf(concept) == PropertiesWithCode(concept, "concept_class")[1].valueCoding.code

\* the CodeSystem create_value_sets was called with has one class for every concept
EveryConceptHasOneClass ==
    /\ last_op = "create_value_sets"
    /\ \A c \in Range(TheValue(code_system).concept) : HasOneClass(c)

\* the members of the i-th ValueSet returned
Members(i) == TheValue(value_sets)[i].compose.include[1].concept

\* C3: when every concept of the CodeSystem has exactly one concept_class property,
\* create_value_sets returns one ValueSet for each definition, the member codes of each
\* are the codes, in the CodeSystem's order, of the concepts whose class is the
\* definition's class, and the member codes of all of them together are the codes of the
\* concepts whose class is a configured class.
C3_PartitionsByClass ==
    EveryConceptHasOneClass =>
        LET concepts == TheValue(code_system).concept
        IN  /\ error.type = "none"
            /\ ~IsNone(value_sets)
            /\ Len(TheValue(value_sets)) = Len(definitions)
            /\ \A i \in DOMAIN definitions :
                   Codes(Members(i)) =
                       Codes(SelectSeq(concepts, LAMBDA c : ClassOf(c) = definitions[i].class))
            /\ UNION {Range(Codes(Members(i))) : i \in DOMAIN definitions} =
                   {c.code : c \in {x \in Range(concepts) :
                                       \E d \in Range(definitions) : ClassOf(x) = d.class}}

\* two definitions of two classes, each with a member, the members in two places
C3_Witness ==
    /\ EveryConceptHasOneClass
    /\ ~IsNone(value_sets)
    /\ Len(definitions) = 2
    /\ definitions[1].class # definitions[2].class
    /\ Codes(Members(1)) = <<<<"2">>>>
    /\ Codes(Members(2)) = <<<<"1">>>>

\* create_value_sets has returned ValueSets for a CodeSystem whose concepts have one
\* class each and a code each of their own
PartitionedDistinctCodes ==
    /\ EveryConceptHasOneClass
    /\ ~IsNone(value_sets)
    /\ \A k, l \in DOMAIN TheValue(code_system).concept :
           k # l => TheValue(code_system).concept[k].code # TheValue(code_system).concept[l].code

\* the ValueSets (by their place) that have the k-th concept of the CodeSystem as a member
PartitionsOf(k) ==
    {i \in DOMAIN TheValue(value_sets) :
        TheValue(code_system).concept[k].code \in Range(Codes(Members(i)))}

\* C4 as stated: the ValueSets returned are pairwise disjoint, every concept of the
\* CodeSystem is a member of at most one of them.
C4_PairwiseDisjoint ==
    PartitionedDistinctCodes =>
        \A k \in DOMAIN TheValue(code_system).concept : Cardinality(PartitionsOf(k)) <= 1

\* C4 as the code has it: a concept is a member of the ValueSets of the definitions
\* that name its class and of no other, so the ValueSets of two definitions that name
\* two classes have no concept in common; definitions that name one class have the same
\* members.
C4_DisjointAcrossClasses ==
    PartitionedDistinctCodes =>
        /\ \A k \in DOMAIN TheValue(code_system).concept :
               PartitionsOf(k) =
                   {i \in DOMAIN definitions :
                       definitions[i].class = ClassOf(TheValue(code_system).concept[k])}
        /\ \A i, j \in DOMAIN definitions :
               definitions[i].class = definitions[j].class => Members(i) = Members(j)

\* two definitions name the class of a concept, which is a member of both ValueSets
C4_Witness ==
    /\ PartitionedDistinctCodes
    /\ Len(TheValue(code_system).concept) = 2
    /\ Len(definitions) = 2
    /\ definitions[1].class = definitions[2].class
    /\ definitions[1].name # definitions[2].name
    /\ \E k \in DOMAIN TheValue(code_system).concept : PartitionsOf(k) = {1, 2}

(***************************************************************************)
(* Claims about the transformation of one raw concept, checked under       *)
(* SpecConcept                                                             *)
(***************************************************************************)
\* the raw concept create_code_system read
RawOne == all_terms.content[1]

\* the class lookup has the class code of the raw concept
ClassResolves(concept) ==
    /\ ~IsNone(concept_classes)
    /\ \E x \in Range(TheValue(concept_classes)) : x.code = concept.class

\* create_code_system has returned a CodeSystem with the transformed concept
Transformed ==
    /\ last_op = "create_code_system"
    /\ error.type = "none"
    /\ ~IsNone(code_system)
    /\ Len(TheValue(code_system).concept) = 1

\* the transformed concept
TransformedOne == TheValue(code_system).concept[1]

\* C5: the transformed concept of a raw concept whose class code the lookup has carries
\* exactly one concept_class property and at most one inactive property, and an inactive
\* property (of value true) is there if and only if the status, lower-cased, is not
\* "current".
C5_OneClassInactiveIffNotCurrent ==
    (Transformed /\ ClassResolves(RawOne)) =>
        LET inactive == PropertiesWithCode(TransformedOne, "inactive")
        IN  /\ Len(PropertiesWithCode(TransformedOne, "concept_class")) = 1
            /\ Len(inactive) <= 1
            /\ \A i \in DOMAIN inactive : inactive[i].valueBoolean = TRUE
            /\ (Len(inactive) = 1) <=> (Lower(RawOne.status) # STR_current)

\* a concept of status "CURRENT" was transformed, and it has no inactive property
C5_Witness ==
    /\ Transformed
    /\ ClassResolves(RawOne)
    /\ RawOne.status = STR_CURRENT
    /\ PropertiesWithCode(TransformedOne, "inactive") = <<>>

\* the translations of the raw concept in a selected language with a term that is set
SelectedWithTerm ==
    SelectSeq(RawOne.translations,
              LAMBDA t : t.language \in Range(designation_languages) /\ Truthy(t.term))

\* the designations of the transformed concept as language and value
DesignationPairs ==
    Map(TheValue(TransformedOne.designation),
        LAMBDA d : [language |-> d.language, term |-> d.value])

OnePerLanguageAndValid ==
    /\ \A i, j \in DOMAIN RawOne.translations :
           i # j => RawOne.translations[i].language # RawOne.translations[j].language
    /\ \A t \in Range(SelectedWithTerm) : ValidCode(t.language)

Unresolved ==
    SelectSeq(all_terms.content, LAMBDA concept : ~ClassResolves(concept))

\* the concept carries one concept_class property, a coding of the class code with the
\* url of the class CodeSystem and the display of the lookup
HasClassReference(concept, class) ==
    /\ HasOneClass(concept)
    /\ ClassOf(concept) = class
    /\ LET coding == PropertiesWithCode(concept, "concept_class")[1].valueCoding
       IN  /\ ~IsNone(coding.system)
           /\ coding.system = class_code_system_url
           /\ \E x \in Range(TheValue(concept_classes)) :
                  x.code = class /\ coding.display = Some(x.display)

\* C10: whatever calls went before, create_code_system returns a CodeSystem only if the
\* lookup, which only a completed generate_class_code_system sets, has the class code of
\* every raw concept; if it lacks the class code of one (there being no lookup included),
\* create_code_system raises and returns nothing; a concept it returns carries its class
\* reference.
C10_NoConceptWithoutClass ==
    /\ ~IsNone(concept_classes) => ~IsNone(class_code_system_url)
    /\ last_op = "create_code_system" =>
           /\ ~IsNone(code_system) <=> error.type = "none"
           /\ ~IsNone(code_system) => Unresolved = <<>>
           /\ Unresolved # <<>> =>
                  /\ IsNone(code_system)
                  /\ error.type = (IF IsNone(concept_classes) THEN "TypeError" ELSE "IndexError")
           /\ ~IsNone(code_system) =>
                  /\ Len(TheValue(code_system).concept) = Len(all_terms.content)
                  /\ \A i \in DOMAIN all_terms.content :
                         HasClassReference(TheValue(code_system).concept[i],
                                           all_terms.content[i].class)

\* the lookup was built, the second of two raw concepts has a class it lacks, and
\* create_code_system raised
C10_Witness ==
    /\ last_op = "create_code_system"
    /\ ~IsNone(concept_classes)
    /\ Len(all_terms.content) = 2
    /\ ClassResolves(all_terms.content[1])
    /\ ~ClassResolves(all_terms.content[2])
    /\ error.type = "IndexError"
    /\ IsNone(code_system)

(***************************************************************************)
(* Further claims about create_value_sets, checked under SpecPartition     *)
(***************************************************************************)
\* the concepts of the CodeSystem that do not have exactly one concept_class property
WithoutOneClass ==
    SelectSeq(TheValue(code_system).concept, LAMBDA c : ~HasOneClass(c))

\* C11: when a ValueSet is built (there is a definition) and a concept of the CodeSystem
\* does not have exactly one concept_class property, create_value_sets raises an error
\* that names the code of that concept (the first such) and returns no list.
C11_MissingClassNamesConcept ==
    (last_op = "create_value_sets" /\ definitions # <<>> /\ WithoutOneClass # <<>>) =>
        /\ IsNone(value_sets)
        /\ error.type = "RuntimeError"
        /\ error.args = <<WithoutOneClass[1].code>>

(***************************************************************************)
(* Specification SpecCanonical: __generate_canonical applied to a url      *)
(* template with the keywords of its call sites                            *)
(***************************************************************************)
\* the pieces templates are made of: text, the two placeholders the call sites fill,
\* a placeholder no call site fills
MaxTemplateParts == 3
STR_version == <<"v", "e", "r", "s", "i", "o", "n">>
Placeholder(k) == <<"<", "$">> \o k \o <<"$", ">">>
TemplateParts ==
    {<<"u", ":">>, <<"/">>, Placeholder(STR_resource_type), Placeholder(STR_id_slug),
     Placeholder(STR_version)}
RECURSIVE Concat(_)
Concat(parts) == IF parts = <<>> THEN <<>> ELSE parts[1] \o Concat(Tail(parts))
UrlTemplates == {Concat(parts) : parts \in SeqsUpTo(TemplateParts, MaxTemplateParts)}
\* resource_type=..., id_slug=... as generate_class_code_system, create_code_system
\* and __generate_value_set pass them
UrlKwargs ==
    {<<[k |-> STR_resource_type, v |-> rt], [k |-> STR_id_slug, v |-> id]>> :
        rt \in {STR_CodeSystem, STR_ValueSet},
        id \in {generate_id_from_title(AppCodeSystemSettings.all_codes.title),
                generate_id_from_title(AppCodeSystemSettings.concept_classes.title)}}

InitCanonical ==
    /\ IdIdle
    /\ RunIdle
    /\ AppIdle
    /\ ApiIdle
    /\ fhir_url_template \in UrlTemplates
    /\ url_kwargs \in UrlKwargs
    /\ generated_url = None

\* the one call of __generate_canonical: it raises nothing
GenerateCanonical ==
    /\ last_op = "none"
    /\ generated_url' = Some(generate_canonical(fhir_url_template, url_kwargs))
    /\ error' = NoError
    /\ last_op' = "generate_canonical"
    /\ UNCHANGED <<idVars, pc, definitions, designation, designation_languages,
                   classes_response, languages_response, output_dir, created_dir, files,
                   all_terms, code_system, cs_link_categories, vs_designations,
                   concept_classes, class_code_system_url, class_code_system, value_sets,
                   fhir_url_template, url_kwargs, apiVars>>

NextCanonical == GenerateCanonical

SpecCanonical == InitCanonical /\ [][NextCanonical]_vars

\* the string has the other as a substring
Contains(s, sub) ==
    \E i \in 1..(Len(s) - Len(sub) + 1) : SubSeq(s, i, i + Len(sub) - 1) = sub

\* the string has a placeholder: "<$", a name, "$>"
HasPlaceholder(s) ==
    \E i, j \in 1..Len(s) :
        /\ i + 2 < j
        /\ j < Len(s)
        /\ SubSeq(s, i, i + 1) = <<"<", "$">>
        /\ SubSeq(s, j, j + 1) = <<"$", ">">>

\* C12: __generate_canonical puts the values of its keywords for their placeholders, and
\* a template that names a placeholder no keyword fills is an error at this call: no url
\* with a placeholder in it is returned.
C12_NoUnresolvedPlaceholder ==
    last_op = "generate_canonical" =>
        IF IsNone(generated_url) THEN error.type # "none"
        ELSE /\ error.type = "none"
             /\ \A kw \in Range(url_kwargs) :
                    ~Contains(TheValue(generated_url), Placeholder(kw.k))
             /\ ~HasPlaceholder(TheValue(generated_url))

(***************************************************************************)
(* Specification SpecRemote: the stages of edqm2fhir_app.py that read from *)
(* the service: App.__init__ with its two checks, then                     *)
(* generate_class_code_system, any number of times                         *)
(***************************************************************************)
\* the designation_languages argument of App(...)
RemoteDesignationLanguages == {<<STR_all>>, <<STR_en>>, <<STR_en, STR_de>>}

InitRemote ==
    /\ IdIdle
    /\ CanonicalIdle
    /\ ApiIdle
    /\ ConstructedIdle
    /\ pc = "app_verify_classes"
    /\ definitions \in DefinitionsOver(AppClasses, MaxDefs)
    /\ designation_languages \in RemoteDesignationLanguages
    /\ vs_designations = FALSE
    /\ concept_classes = None
    /\ class_code_system_url = None
    /\ code_system = None

\* App.__init__: self.__verify_classes()
AppVerifyClasses ==
    /\ pc = "app_verify_classes"
    /\ \E rx \in ClassesResponsesOver(AppClasses, MaxRemoteClasses) :
          /\ classes_response' = rx
          /\ requests_sent' = execute_request_sends(rx)
          /\ error' = verify_classes(execute_request(rx), definitions)
    /\ pc' = IF error'.type = "none" THEN "app_verify_designation_languages" ELSE "aborted"
    /\ UNCHANGED <<idVars, canonVars, appVars, definitions, designation, designation_languages,
                   languages_response, output_dir, created_dir, files, all_terms,
                   code_system, cs_link_categories>>

\* App.__init__: self.__verify_designation_languages() and the assignments after it
AppVerifyDesignationLanguages ==
    /\ pc = "app_verify_designation_languages"
    /\ \E rx \in LanguagesResponses :
          \E result \in {verify_designation_languages(execute_request(rx), designation_languages)} :
              /\ languages_response' = rx
              /\ requests_sent' = execute_request_sends(rx)
              /\ error' = result.error
              /\ designation_languages' = result.designation_languages
    /\ pc' = IF error'.type = "none" THEN "constructed" ELSE "aborted"
    /\ classes_response' = NoResponse
    /\ UNCHANGED <<idVars, canonVars, appVars, definitions, designation,
                   output_dir, created_dir, files, all_terms, code_system, cs_link_categories>>

NextRemote ==
    \/ AppVerifyClasses
    \/ AppVerifyDesignationLanguages
    \/ GenerateClassCodeSystem

SpecRemote == InitRemote /\ [][NextRemote]_vars

\* the response is one of a request that did not succeed
Failed(rx) == rx.status_code \notin {0, 200}

\* C13: for a response that is no success execute_request returns None, having sent one
\* request; the class check and the language check then end the construction with an
\* exception, and generate_class_code_system raises and returns no CodeSystem: none of
\* them goes on with an empty catalogue.
C13_FailedRequestIsFatal ==
    /\ requests_sent = (IF pc = "app_verify_classes" THEN 0 ELSE 1)
    /\ \A rx \in {classes_response, languages_response} :
           Failed(rx) => IsNone(execute_request(rx))
    /\ Failed(classes_response) =>
           /\ error.type # "none"
           /\ IF last_op = "generate_class_code_system"
              THEN pc = "constructed" /\ IsNone(class_code_system)
              ELSE pc = "aborted"
    /\ Failed(languages_response) => (error.type # "none" /\ pc = "aborted")

\* the App was constructed, then the request of generate_class_code_system failed
C13_Witness ==
    /\ pc = "constructed"
    /\ last_op = "generate_class_code_system"
    /\ languages_response.status_code = 200
    /\ Failed(classes_response)
    /\ requests_sent = 1
    /\ error.type = "TypeError"
    /\ IsNone(class_code_system)
    /\ IsNone(concept_classes)

(***************************************************************************)
(* Further claims about the transformation of one raw concept, checked     *)
(* under SpecConcept                                                       *)
(***************************************************************************)
\* the translations the dictionary of __cs_generate_concepts keeps, less those without a
\* term and those whose language the designation rejects
ValidSelectedWithTerm ==
    SelectSeq(selected_translations(RawOne, designation_languages),
              LAMBDA t : Truthy(t.term) /\ ValidCode(t.language))

\* C14: a designation the resource class rejects and a concept the resource class
\* rejects are logged and dropped, and create_code_system goes on: it raises nothing for
\* them and returns the CodeSystem, with the concept and its remaining designations when
\* the concept itself is accepted.
C14_StructuralErrorsDoNotAbort ==
    (last_op = "create_code_system" /\ ClassResolves(RawOne)) =>
        /\ error.type = "none"
        /\ ~IsNone(code_system)
        /\ ValidCode(RawOne.code) =>
               /\ Len(TheValue(code_system).concept) = 1
               /\ DesignationPairs = ValidSelectedWithTerm

\* the codes of the concept's properties, in their order
PropertyCodes == Map(TheValue(TransformedOne.property), LAMBDA p : p.code)

\* the codes the raw concept's links name, category after category
LinkedCodes == Map(all_links(safe_get(RawOne.links, <<>>)), LAMBDA link : link.code)

\* C15: the properties of a concept whose class the lookup has are concept_class, domain,
\* creation_date, modification_date, status, then inactive if the status is not
\* "current", then one child for every link of every category, in the order of the
\* categories and of their links, each child with the code of its link and nothing else;
\* a concept without links has no child.
C15_PropertyOrder ==
    (Transformed /\ ClassResolves(RawOne)) =>
        LET properties == TheValue(TransformedOne.property)
            fixed == <<"concept_class", "domain", "creation_date", "modification_date", "status">>
                     \o (IF Lower(RawOne.status) # STR_current THEN <<"inactive">> ELSE <<>>)
        IN  /\ Len(properties) = Len(fixed) + Len(LinkedCodes)
            /\ SubSeq(PropertyCodes, 1, Len(fixed)) = fixed
            /\ \A i \in 1..Len(LinkedCodes) :
                   properties[Len(fixed) + i] = [code |-> "child", valueCode |-> LinkedCodes[i]]
            /\ (IsNone(RawOne.links) \/ LinkedCodes = <<>>) => "child" \notin Range(PropertyCodes)

\* a retired concept with links in two categories, two in the first and one in the second
C15_Witness ==
    /\ Transformed
    /\ ClassResolves(RawOne)
    /\ RawOne.status = STR_Retired
    /\ ~IsNone(RawOne.links)
    /\ Len(TheValue(RawOne.links)) = 2
    /\ Len(TheValue(RawOne.links)[1].entries) = 2
    /\ Len(TheValue(RawOne.links)[2].entries) = 1
    /\ PropertyCodes = <<"concept_class", "domain", "creation_date", "modification_date",
                         "status", "inactive", "child", "child", "child">>

(***************************************************************************)
(* Claims about the members and the references of the ValueSets, checked   *)
(* under SpecPartition                                                     *)
(***************************************************************************)
\* the designations of a concept or of a member; none when it has no list
DesignationsOf(c) == IF IsNone(c.designation) THEN <<>> ELSE TheValue(c.designation)

\* the concepts of the CodeSystem that have the class of the i-th definition
SourcesOf(i) ==
    SelectSeq(TheValue(code_system).concept, LAMBDA c : ClassOf(c) = definitions[i].class)

\* C16: a member has the code and the display of its concept; it has the designations of
\* its concept, in their order and with their language, use and value, when
\* vs_designations is set, and no designations when it is not.
C16_MembersCopyConcepts ==
    (EveryConceptHasOneClass /\ ~IsNone(value_sets)) =>
        \A i \in DOMAIN definitions :
            /\ Len(Members(i)) = Len(SourcesOf(i))
            /\ \A k \in DOMAIN Members(i) :
                   LET member == Members(i)[k]
                       source == SourcesOf(i)[k]
                   IN  /\ member.code = source.code
                       /\ member.display = source.display
                       /\ IF vs_designations
                          THEN /\ DesignationsOf(member) = DesignationsOf(source)
                               /\ IsNone(member.designation) <=> IsNone(source.designation)
                          ELSE IsNone(member.designation)

\* with vs_designations set, a member has the two designations of its concept, the
\* member before it has none as its concept has none
C16_Witness ==
    /\ EveryConceptHasOneClass
    /\ ~IsNone(value_sets)
    /\ vs_designations
    /\ Len(definitions) = 1
    /\ Len(Members(1)) = 2
    /\ IsNone(Members(1)[1].designation)
    /\ Len(DesignationsOf(Members(1)[2])) = 2
    /\ DesignationsOf(Members(1)[2])[1].language = STR_de
    /\ DesignationsOf(Members(1)[2]) = DesignationsOf(TheValue(code_system).concept[2])

\* C17: create_value_sets returns one ValueSet for each definition, in the order of the
\* definitions, and each of them includes from the CodeSystem it was handed, named by
\* its url and its version, and from nothing else.
C17_OnePinnedValueSetPerDefinition ==
    (last_op = "create_value_sets" /\ error.type = "none") =>
        /\ ~IsNone(value_sets)
        /\ Len(TheValue(value_sets)) = Len(definitions)
        /\ \A i \in DOMAIN definitions :
               LET vs == TheValue(value_sets)[i]
               IN  /\ vs.title = Replace(AppValueSetSettings.title_template,
                                         Placeholder(STR_vs_name), definitions[i].name)
                   /\ vs.identifier[1].value =
                          AppMetadata.identifier_systems.oid.prefix \o definitions[i].oid
                   /\ Len(vs.compose.include) = 1
                   /\ vs.compose.include[1].system = TheValue(code_system).url
                   /\ vs.compose.include[1].version = TheValue(code_system).version

\* two ValueSets were returned for two definitions; the CodeSystem is of another day
\* than the run
C17_Witness ==
    /\ last_op = "create_value_sets"
    /\ error.type = "none"
    /\ Len(definitions) = 2
    /\ Len(TheValue(value_sets)) = 2
    /\ TheValue(value_sets)[1].title # TheValue(value_sets)[2].title
    /\ TheValue(code_system).concept # <<>>
    /\ TheValue(code_system).version # TheValue(value_sets)[1].version
    /\ TheValue(value_sets)[2].compose.include[1].version = TheValue(code_system).version

====
